---- MODULE Spec2Model ----
(***************************************************************************)
(* NSGA-II optimizer of SynergySummerSchool.ipynb: the function optimize   *)
(* and the DEAP operators it registers in its toolbox (tools.selNSGA2,     *)
(* tools.sortNondominated, tools.selTournamentDCD,                         *)
(* tools.cxSimulatedBinaryBounded, tools.mutPolynomialBounded).            *)
(*                                                                         *)
(* Reals are modelled on integer grids: a gene is an integer in            *)
(* attribute_bound_lower..attribute_bound_upper (GeneScale steps for the   *)
(* interval [0.0, 1.0]), an objective value an integer in 0..FitMax, a     *)
(* probability or a draw of random.random() an integer number of tenths,   *)
(* and a crowding distance an exact fraction <<num, den>> (<<1, 0>> is     *)
(* float("inf")).                                                          *)
(***************************************************************************)
EXTENDS Integers, Sequences, FiniteSets, TLC

VARIABLES
    cfg,                \* the arguments of optimize
    pc,                 \* the state of the generational driver
    error,              \* the exception that ended the run ("" if none)
    generation,         \* the loop variable of optimize
    mutate,             \* toolbox.mutate: its bound keyword and its attribute
    heap,               \* the Individual objects, by reference
    population,         \* references into heap
    offspring,          \* references into heap
    pair,               \* index of the mating pair being varied
    vary_step,          \* statement of the pair loop to run next
    mating_pool,        \* per offspring not yet varied: the selected parent (else 0)
    parent_genes,       \* per offspring: genes of the parent it was cloned from
    comparisons,        \* per individual: tournaments it took part in
    evaluations,        \* calls of toolbox.evaluate so far
    cycles,             \* completed generations
    hypervolume_value,  \* <<>> while unbound, else <<value>>
    nondominated_individuals,
    individuals,        \* argument of a direct call of tools.selNSGA2
    k,                  \* argument k of that call
    pareto_fronts,      \* fronts computed by that call
    chosen              \* its return value

vars == <<cfg, pc, error, generation, mutate, heap, population, offspring,
          mating_pool, pair, vary_step, parent_genes, comparisons, evaluations, cycles,
          hypervolume_value, nondominated_individuals,
          individuals, k, pareto_fronts, chosen>>

-----------------------------------------------------------------------------
(* Bounds of the model *)

\* population_size is drawn from 2..MaxPopulation
MaxPopulation == 4
\* number_of_generations is drawn from 1..MaxGenerations
MaxGenerations == 2
\* number of grid steps between the lower and the upper bound of a gene
GeneScale == 1
\* longest list handed to a direct call of tools.selNSGA2
MaxIndividuals == 4

-----------------------------------------------------------------------------
(* Program constants *)

optimization_type == <<-1, -1>>
\* the objectives, which tanh keeps in [0, 1], are quantised to three levels
ObjectiveLevels == {0, 1, 2}
FitMax == CHOOSE m \in ObjectiveLevels : \A v \in ObjectiveLevels : v <= m
attribute_bound_lower == 0
attribute_bound_upper == GeneScale
\* the model keeps one of the source's four attributes
attribute_names == <<"b">>
number_of_attributes == Len(attribute_names)
\* indpb = 0.1 bound by toolbox.register("mutate", ...), in tenths
registered_indpb == 1

\* values random.random() returns, in tenths: [0.0, 1.0) sampled at its minimum,
\* at the 0.1 and 0.5 thresholds the code compares with, and above them
RandomDraws == {0, 1, 5, 9}

-----------------------------------------------------------------------------
(* Sequences *)

Indices(s) == 1..Len(s)

Iota(n) == [i \in 1..n |-> i]

RECURSIVE Flatten(_)
Flatten(ss) == IF ss = <<>> THEN <<>> ELSE Head(ss) \o Flatten(Tail(ss))

SeqRange(s) == {s[i] : i \in 1..Len(s)}

Prefix(s, n) == SubSeq(s, 1, IF n < Len(s) THEN n ELSE Len(s))

\* list.sort(key=...) / sorted(key=...): stable, ascending; less[<<a, b>>] tells
\* whether the key of a is smaller than the key of b
RECURSIVE InsertStable(_, _, _)
InsertStable(sorted, x, less) ==
    IF sorted = <<>> THEN <<x>>
    ELSE IF less[<<x, sorted[Len(sorted)]>>]
         THEN Append(InsertStable(SubSeq(sorted, 1, Len(sorted) - 1), x, less),
                     sorted[Len(sorted)])
         ELSE Append(sorted, x)

RECURSIVE StableSort(_, _)
StableSort(s, less) ==
    IF s = <<>> THEN <<>>
    ELSE InsertStable(StableSort(SubSeq(s, 1, Len(s) - 1), less), s[Len(s)], less)

-----------------------------------------------------------------------------
(* Fractions: crowding distances *)

RECURSIVE GCD(_, _)
GCD(a, b) == IF b = 0 THEN a ELSE GCD(b, a % b)

Infinity == <<1, 0>>
Zero == <<0, 1>>
IsInf(d) == d[2] = 0

Frac(n, d) == LET g == GCD(n, d) IN IF g = 0 THEN Zero ELSE <<n \div g, d \div g>>

\* float addition: inf absorbs
FracAdd(a, b) ==
    IF IsInf(a) \/ IsInf(b) THEN Infinity
    ELSE Frac(a[1] * b[2] + b[1] * a[2], a[2] * b[2])

FracLess(a, b) ==
    IF IsInf(a) THEN FALSE
    ELSE IF IsInf(b) THEN TRUE
    ELSE a[1] * b[2] < b[1] * a[2]

-----------------------------------------------------------------------------
(* deap.base.Fitness *)

wvalues(values) == [i \in 1..Len(values) |-> optimization_type[i] * values[i]]

\* Fitness.dominates over the weighted values
dominates(self, other) ==
    /\ \A i \in 1..Len(self) : wvalues(self)[i] >= wvalues(other)[i]
    /\ \E i \in 1..Len(self) : wvalues(self)[i] > wvalues(other)[i]

-----------------------------------------------------------------------------
(* deap.tools.sortNondominated(individuals, k), on the list of the         *)
(* individuals' fitness values; a front is a list of indices of that list  *)

\* fits = list(map_fit_ind.keys()): the distinct fitnesses, by first occurrence
RECURSIVE FitKeys(_, _)
FitKeys(vals, n) ==
    IF n = 0 THEN <<>>
    ELSE LET prev == FitKeys(vals, n - 1)
         IN  IF vals[n] \in SeqRange(prev) THEN prev ELSE Append(prev, vals[n])

\* map_fit_ind[fit]
map_fit_ind(vals, fit) == SelectSeq(Iota(Len(vals)), LAMBDA i : vals[i] = fit)

\* dominating_fits[fits[i]] after the pairwise loop, with only the first branch
\* of the comparison counted
dominating_fits_first_branch(fits, i) ==
    Cardinality({j \in 1..(i - 1) : dominates(fits[j], fits[i])})

\* dominating_fits[fits[i]] after the pairwise loop
dominating_fits(fits, i) ==
    Cardinality({j \in Indices(fits) : j # i /\ dominates(fits[j], fits[i])})

\* dominated_fits[fits[p]] after the pairwise loop, in the order of its appends
dominated_fits(fits, p) ==
    SelectSeq(Iota(Len(fits)), LAMBDA q : q # p /\ dominates(fits[p], fits[q]))

\* the individuals of a list of fitness keys
FrontIndividuals(vals, fits, front) ==
    Flatten([j \in Indices(front) |-> map_fit_ind(vals, fits[front[j]])])

\* the body of the while loop, over the pairs (fit_p, fit_d) in loop order
RECURSIVE RankNext(_, _, _)
RankNext(pairs, counts, next_front) ==
    IF pairs = <<>> THEN [counts |-> counts, next_front |-> next_front]
    ELSE LET d == Head(pairs)[2]
             c == [counts EXCEPT ![d] = @ - 1]
         IN  RankNext(Tail(pairs), c,
                      IF c[d] = 0 THEN Append(next_front, d) ELSE next_front)

\* the pairs (fit_p, fit_d) of the while loop's body, in loop order
DominatedPairs(fits, current_front) ==
    Flatten([j \in Indices(current_front) |->
               [m \in Indices(dominated_fits(fits, current_front[j])) |->
                  <<current_front[j], dominated_fits(fits, current_front[j])[m]>>]])

RECURSIVE RankFronts(_, _, _, _, _, _)

RankStep(vals, fits, r, fronts, N) ==
    RankFronts(vals, fits, r.next_front, r.counts,
               Append(fronts, FrontIndividuals(vals, fits, r.next_front)), N)

\* while pareto_sorted < N
RankFronts(vals, fits, current_front, counts, fronts, N) ==
    IF Len(Flatten(fronts)) >= N THEN fronts
    ELSE RankStep(vals, fits,
                  RankNext(DominatedPairs(fits, current_front), counts, <<>>),
                  fronts, N)

FirstFront(counts) == SelectSeq(Iota(Len(counts)), LAMBDA i : counts[i] = 0)

RankAll(vals, fits, counts, N) ==
    RankFronts(vals, fits, FirstFront(counts), counts,
               <<FrontIndividuals(vals, fits, FirstFront(counts))>>, N)

RankKeys(vals, fits, N) ==
    RankAll(vals, fits, [i \in Indices(fits) |-> dominating_fits(fits, i)], N)

sortNondominated(vals, kk) ==
    IF kk = 0 THEN <<>>
    ELSE RankKeys(vals, FitKeys(vals, Len(vals)),
                  IF Len(vals) < kk THEN Len(vals) ELSE kk)

-----------------------------------------------------------------------------
(* deap.tools.assignCrowdingDist(front): the distance of each member of    *)
(* the front, by position in the front                                     *)

\* the interior of the sorted front: distances[cur] += (next - prev) / norm
CrowdInterior(vals, front, obj, crowd, ends, norm) ==
    [p \in Indices(front) |->
       IF \E c \in 2..(Len(crowd) - 1) : crowd[c] = p
       THEN FracAdd(ends[p],
                    Frac(vals[front[crowd[(CHOOSE c \in 2..(Len(crowd) - 1) : crowd[c] = p) + 1]]][obj]
                         - vals[front[crowd[(CHOOSE c \in 2..(Len(crowd) - 1) : crowd[c] = p) - 1]]][obj],
                         norm))
       ELSE ends[p]]

\* one objective, crowd already sorted by it
CrowdSorted(vals, front, obj, crowd, distances, lo, hi) ==
    IF hi = lo
    THEN [distances EXCEPT ![crowd[1]] = Infinity, ![crowd[Len(crowd)]] = Infinity]
    ELSE CrowdInterior(vals, front, obj, crowd,
                       [distances EXCEPT ![crowd[1]] = Infinity,
                                         ![crowd[Len(crowd)]] = Infinity],
                       Len(optimization_type) * (hi - lo))

RECURSIVE CrowdObjective(_, _, _, _, _)

CrowdStep(vals, front, obj, crowd, distances) ==
    CrowdObjective(vals, front, obj + 1, crowd,
                   CrowdSorted(vals, front, obj, crowd, distances,
                               vals[front[crowd[1]]][obj],
                               vals[front[crowd[Len(crowd)]]][obj]))

\* for i in xrange(nobj): crowd.sort(key=lambda element: element[0][i]); ...
CrowdObjective(vals, front, obj, crowd, distances) ==
    IF obj > Len(optimization_type) THEN distances
    ELSE CrowdStep(vals, front, obj,
                   StableSort(crowd,
                              [ab \in Indices(front) \X Indices(front) |->
                                 vals[front[ab[1]]][obj] < vals[front[ab[2]]][obj]]),
                   distances)

assignCrowdingDist(vals, front) ==
    IF Len(front) = 0 THEN <<>>
    ELSE CrowdObjective(vals, front, 1, Iota(Len(front)),
                        [p \in Indices(front) |-> Zero])

-----------------------------------------------------------------------------
(* deap.tools.selNSGA2(individuals, k)                                      *)

\* sorted(pareto_fronts[-1], key=crowding_dist, reverse=False)
sorted_front_ascending(front, dist) ==
    LET order == StableSort(Iota(Len(front)),
                            [ab \in Indices(front) \X Indices(front) |->
                               FracLess(dist[ab[1]], dist[ab[2]])])
    IN  [i \in Indices(order) |-> front[order[i]]]

\* sorted(pareto_fronts[-1], key=crowding_dist, reverse=True)
sorted_front(front, dist) ==
    LET order == StableSort(Iota(Len(front)),
                            [ab \in Indices(front) \X Indices(front) |->
                               FracLess(dist[ab[2]], dist[ab[1]])])
    IN  [i \in Indices(order) |-> front[order[i]]]

\* chosen.extend(sorted_front) without the slice [:k]
extend_chosen_unsliced(whole, last, kk) == whole \o last

\* chosen.extend(sorted_front[:k])
extend_chosen(whole, last, kk) == whole \o Prefix(last, kk)

\* list(chain(*pareto_fronts[:-1])), then the last front sorted and cut
ChooseFromFronts(fronts, dist, kk, whole) ==
    IF kk - Len(whole) > 0
    THEN extend_chosen(whole, sorted_front(fronts[Len(fronts)], dist[Len(fronts)]),
                       kk - Len(whole))
    ELSE whole

Chosen(fronts, dist, kk) ==
    IF fronts = <<>> THEN <<>>
    ELSE ChooseFromFronts(fronts, dist, kk, Flatten(SubSeq(fronts, 1, Len(fronts) - 1)))

SelectFromFronts(vals, kk, fronts, dist) ==
    [pareto_fronts |-> fronts, crowding_dist |-> dist, chosen |-> Chosen(fronts, dist, kk)]

CrowdFronts(vals, kk, fronts) ==
    SelectFromFronts(vals, kk, fronts,
                     [f \in Indices(fronts) |-> assignCrowdingDist(vals, fronts[f])])

selNSGA2(vals, kk) == CrowdFronts(vals, kk, sortNondominated(vals, kk))

-----------------------------------------------------------------------------
(* Individuals.  creator.Individual is an array of genes with a fitness;   *)
(* values is <<>> while the fitness is invalid and crowding_dist is <<>>   *)
(* until assignCrowdingDist sets the attribute.  evaluated counts the      *)
(* calls of toolbox.evaluate on the object.                                *)

Individual(genes) ==
    [genes |-> genes, values |-> <<>>, crowding_dist |-> <<>>, evaluated |-> 0]

FitnessValues == ObjectiveLevels \X ObjectiveLevels

\* where a reference stands in the fronts: <<front, position>>, <<>> if nowhere
FrontPosition(fronts, refs, ref) ==
    IF \E f \in Indices(fronts) : \E p \in Indices(fronts[f]) : refs[fronts[f][p]] = ref
    THEN CHOOSE fp \in {<<f, p>> : f \in Indices(fronts), p \in 1..Len(refs)} :
            /\ fp[2] \in Indices(fronts[fp[1]])
            /\ refs[fronts[fp[1]][fp[2]]] = ref
    ELSE <<>>

WithCrowdingDist(ind, dist, fp) ==
    IF fp = <<>> THEN ind ELSE [ind EXCEPT !.crowding_dist = dist[fp[1]][fp[2]]]

SelectResult(h, refs, r) ==
    [chosen |-> [i \in Indices(r.chosen) |-> refs[r.chosen[i]]],
     pareto_fronts |-> [f \in Indices(r.pareto_fronts) |->
                          [p \in Indices(r.pareto_fronts[f]) |->
                             refs[r.pareto_fronts[f][p]]]],
     heap |-> [ref \in DOMAIN h |->
                 WithCrowdingDist(h[ref], r.crowding_dist,
                                  FrontPosition(r.pareto_fronts, refs, ref))]]

\* tools.selNSGA2 on a list of references: what it returns and the heap it leaves
select(h, refs, kk) ==
    SelectResult(h, refs, selNSGA2([i \in Indices(refs) |-> h[refs[i]].values], kk))

-----------------------------------------------------------------------------
(* Direct calls of the selection operators on an arbitrary evaluated list  *)

IdleDriver ==
    /\ cfg = [population_size |-> 0, number_of_generations |-> 0,
              crossover_probability |-> 0, mutation_probability |-> 0]
    /\ error = ""
    /\ generation = 0
    /\ mutate = [indpb |-> registered_indpb, attribute_indpb |-> <<>>]
    /\ population = <<>>
    /\ offspring = <<>>
    /\ pair = 0
    /\ vary_step = ""
    /\ mating_pool = <<>>
    /\ parent_genes = <<>>
    /\ comparisons = <<>>
    /\ evaluations = 0
    /\ cycles = 0
    /\ hypervolume_value = <<>>
    /\ nondominated_individuals = <<>>

EvaluatedLists ==
    UNION {[1..n -> FitnessValues] : n \in 1..MaxIndividuals}

InitSort ==
    /\ IdleDriver
    /\ pc = "Calling"
    /\ \E vals \in EvaluatedLists :
         /\ heap = [i \in Indices(vals) |->
                      [Individual([g \in 1..number_of_attributes |->
                                     attribute_bound_lower])
                         EXCEPT !.values = vals[i], !.evaluated = 1]]
         /\ individuals = Iota(Len(vals))
         /\ k \in 1..Len(vals)
    /\ pareto_fronts = <<>>
    /\ chosen = <<>>

\* toolbox.select(individuals, k)
CallSelect ==
    /\ pc = "Calling"
    /\ \E r \in {select(heap, individuals, k)} :
           /\ heap' = r.heap
           /\ pareto_fronts' = r.pareto_fronts
           /\ chosen' = r.chosen
    /\ pc' = "Selected"
    /\ UNCHANGED <<cfg, error, generation, mutate, population, offspring, mating_pool,
                   pair, vary_step, parent_genes, comparisons, evaluations, cycles,
                   hypervolume_value, nondominated_individuals, individuals, k>>

\* tools.sortNondominated(individuals, len(individuals))[0]
CallSortNondominated ==
    /\ pc = "Calling"
    /\ k = Len(individuals)
    /\ \E fronts \in {sortNondominated([i \in Indices(individuals) |->
                                            heap[individuals[i]].values],
                                         Len(individuals))} :
           /\ pareto_fronts' = [f \in Indices(fronts) |->
                                  [p \in Indices(fronts[f]) |-> individuals[fronts[f][p]]]]
           /\ nondominated_individuals' = [p \in Indices(fronts[1]) |->
                                             individuals[fronts[1][p]]]
    /\ pc' = "Sorted"
    /\ UNCHANGED <<cfg, error, generation, mutate, heap, population, offspring,
                   mating_pool, pair, vary_step, parent_genes, comparisons, evaluations,
                   cycles, hypervolume_value, individuals, k, chosen>>

NextSort == CallSelect \/ CallSortNondominated

SpecSort == InitSort /\ [][NextSort]_vars

-----------------------------------------------------------------------------
(* Collaborators of optimize                                               *)

Min(a, b) == IF a < b THEN a ELSE b
Max(a, b) == IF a > b THEN a ELSE b

\* random.uniform(bound_lower, bound_upper), once per attribute
initialization_uniform ==
    [1..number_of_attributes -> attribute_bound_lower..attribute_bound_upper]

\* welded_beam_design, quantised: the cost f1 grows with the attributes, the
\* deflection f2 falls with b = x[0], and a beam at the lower bound of b breaks
\* the stress constraint, which adds the penalty to both objectives; tanh
\* saturates at 1.0, here FitMax
welded_beam_design(x) ==
    LET penalty == x[1] = attribute_bound_lower
        f1 == x[1] - attribute_bound_lower
        f2 == attribute_bound_upper - x[1]
    IN  IF penalty THEN <<FitMax, FitMax>>
        ELSE <<Min(f1, FitMax), Min(f2, FitMax)>>

\* toolbox.evaluate on every individual with an invalid fitness only
evaluate_invalid(h, refs) ==
    [ref \in DOMAIN h |->
       IF ref \in SeqRange(refs) /\ h[ref].values = <<>>
       THEN [h[ref] EXCEPT !.values = welded_beam_design(h[ref].genes),
                           !.evaluated = @ + 1]
       ELSE h[ref]]

\* fitnesses = toolbox.map(toolbox.evaluate, refs), assigned to ind.fitness.values
evaluate(h, refs) ==
    [ref \in DOMAIN h |->
       IF ref \in SeqRange(refs)
       THEN [h[ref] EXCEPT !.values = welded_beam_design(h[ref].genes),
                           !.evaluated = @ + 1]
       ELSE h[ref]]

\* hypervolume(population, reference_point): the grid cells the population dominates
hypervolume(h, refs) ==
    Cardinality({c \in FitnessValues :
                   \E i \in Indices(refs) :
                      /\ h[refs[i]].values[1] <= c[1]
                      /\ h[refs[i]].values[2] <= c[2]})

\* the calls of toolbox.evaluate between two heaps
calls(before, after) ==
    Cardinality({ref \in DOMAIN before : after[ref].evaluated # before[ref].evaluated})

\* toolbox.clone: a deep copy, a new object
clone(ind) == [ind EXCEPT !.evaluated = 0]

-----------------------------------------------------------------------------
(* deap.tools.selTournamentDCD(individuals, k)                              *)

\* random.sample(individuals, len(individuals)) with repetitions allowed
random_choices(n) == [1..n -> 1..n]

\* random.sample(individuals, len(individuals)): a shuffled copy
random_sample(n) == {p \in [1..n -> 1..n] : \A i, j \in 1..n : i # j => p[i] # p[j]}

\* tourn(ind1, ind2), u the draw of its coin
tourn(h, ind1, ind2, u) ==
    IF dominates(h[ind1].values, h[ind2].values) THEN ind1
    ELSE IF dominates(h[ind2].values, h[ind1].values) THEN ind2
    ELSE IF FracLess(h[ind1].crowding_dist, h[ind2].crowding_dist) THEN ind2
    ELSE IF FracLess(h[ind2].crowding_dist, h[ind1].crowding_dist) THEN ind1
    ELSE IF u <= 5 THEN ind1 ELSE ind2

\* the indexing individuals_1[i] .. individuals_1[i+3] for i in range(0, k, 4)
\* stays inside the list
TournamentDefined(n, kk) == kk <= n /\ kk % 4 = 0

\* every individual tourn(ind1, ind2) can return
tourn_results(h, ind1, ind2) == {tourn(h, ind1, ind2, u) : u \in RandomDraws}

\* the four entries appended in loop round i (0-based i), for every draw
TournamentRound(h, refs, perm1, perm2, i) ==
    {<<a, b, c, d>> :
        a \in tourn_results(h, refs[perm1[i + 1]], refs[perm1[i + 2]]),
        b \in tourn_results(h, refs[perm1[i + 3]], refs[perm1[i + 4]]),
        c \in tourn_results(h, refs[perm2[i + 1]], refs[perm2[i + 2]]),
        d \in tourn_results(h, refs[perm2[i + 3]], refs[perm2[i + 4]])}

\* every list selTournamentDCD can return for the given shuffles
selTournamentDCD(h, refs, kk, perm1, perm2) ==
    LET rounds == kk \div 4
        Round(r) == TournamentRound(h, refs, perm1, perm2, 4 * (r - 1))
    IN  {Flatten(f) : f \in {g \in [1..rounds -> UNION {Round(r) : r \in 1..rounds}] :
                                \A r \in 1..rounds : g[r] \in Round(r)}}

\* how often each list position was handed to tourn
tournament_count(n, kk, perm1, perm2) ==
    [x \in 1..n |->
       Cardinality({j \in 1..kk : perm1[j] = x}) + Cardinality({j \in 1..kk : perm2[j] = x})]

-----------------------------------------------------------------------------
(* deap.tools.cxSimulatedBinaryBounded and deap.tools.mutPolynomialBounded *)

\* the value as computed, kept as it is
unbounded(x, xl, xu) == x

\* min(max(x, xl), xu)
bounded(x, xl, xu) == Min(Max(x, xl), xu)

\* one gene of cxSimulatedBinaryBounded: every pair (ind1[i], ind2[i]) it can leave
cxGene(a, b, xl, xu) ==
    UNION {IF u <= 5 /\ a # b
           THEN LET x1 == Min(a, b)
                    x2 == Max(a, b)
                IN  UNION {LET c1 == bounded(r[1], xl, xu)
                               c2 == bounded(r[2], xl, xu)
                           IN  {IF swap <= 5 THEN <<c2, c1>> ELSE <<c1, c2>> :
                                   swap \in RandomDraws} :
                           r \in {r \in ((xl - 1)..x2) \X (x1..(xu + 1)) : r[1] <= r[2]}}
           ELSE {<<a, b>>} : u \in RandomDraws}

cxSimulatedBinaryBounded(g1, g2) ==
    LET D == 1..Len(g1)
        Gene(i) == cxGene(g1[i], g2[i], attribute_bound_lower, attribute_bound_upper)
    IN  {<<[i \in D |-> f[i][1]], [i \in D |-> f[i][2]]>> :
            f \in {f \in [D -> UNION {Gene(i) : i \in D}] : \A i \in D : f[i] \in Gene(i)}}

\* one gene of mutPolynomialBounded: every value it can leave
mutGene(x, xl, xu, indpb) ==
    UNION {IF u <= indpb
           THEN UNION {{bounded(raw, xl, xu) :
                           raw \in IF rand < 5 THEN (xl - 1)..x ELSE x..(xu + 1)} :
                       rand \in RandomDraws}
           ELSE {x} : u \in RandomDraws}

mutPolynomialBounded(g, indpb) ==
    LET D == 1..Len(g)
        Gene(i) == mutGene(g[i], attribute_bound_lower, attribute_bound_upper, indpb)
    IN  {f \in [D -> UNION {Gene(i) : i \in D}] : \A i \in D : f[i] \in Gene(i)}

-----------------------------------------------------------------------------
(* optimize(population_size, number_of_generations, crossover_probability, *)
(* mutation_probability)                                                    *)

Configuration(n, g, cxpb, mutpb) ==
    [population_size |-> n, number_of_generations |-> g,
     crossover_probability |-> cxpb, mutation_probability |-> mutpb]

\* <<crossover_probability, mutation_probability>> in tenths: both zero, and both
\* above 1.0
EdgeProbabilities == {<<0, 0>>, <<11, 11>>}

\* the arguments optimize is called with: every size and generation count with
\* both probabilities 0.5, and the edge probabilities with one generational cycle
Configurations ==
    {Configuration(n, g, 5, 5) : n \in 2..MaxPopulation, g \in 1..MaxGenerations}
    \cup {Configuration(n, 2, p[1], p[2]) : n \in 2..MaxPopulation, p \in EdgeProbabilities}

\* the configuration surface: an even population_size >= 2, number_of_generations
\* >= 1, both probabilities in [0, 1]
ValidConfiguration(c) ==
    /\ c.population_size >= 2
    /\ c.population_size % 2 = 0
    /\ c.number_of_generations >= 1
    /\ c.crossover_probability \in 0..10
    /\ c.mutation_probability \in 0..10

NoCall ==
    /\ individuals = <<>>
    /\ k = 0
    /\ pareto_fronts = <<>>
    /\ chosen = <<>>

Init ==
    /\ cfg \in Configurations
    /\ pc = "Initializing"
    /\ error = ""
    /\ generation = 0
    /\ mutate = [indpb |-> registered_indpb, attribute_indpb |-> <<>>]
    /\ heap = <<>>
    /\ population = <<>>
    /\ offspring = <<>>
    /\ pair = 0
    /\ vary_step = ""
    /\ mating_pool = <<>>
    /\ parent_genes = <<>>
    /\ comparisons = <<>>
    /\ evaluations = 0
    /\ cycles = 0
    /\ hypervolume_value = <<>>
    /\ nondominated_individuals = <<>>
    /\ NoCall

call_vars == <<individuals, k, pareto_fronts, chosen>>

\* toolbox.mutate.indpb = mutation_probability;
\* population = toolbox.population(n=population_size)
InitializePopulation ==
    /\ pc = "Initializing"
    /\ mutate' = [mutate EXCEPT !.attribute_indpb = <<cfg.mutation_probability>>]
    /\ \E genes \in [1..cfg.population_size -> initialization_uniform] :
         heap' = [i \in 1..cfg.population_size |-> Individual(genes[i])]
    /\ population' = Iota(cfg.population_size)
    /\ pc' = "Evaluating"
    /\ UNCHANGED <<cfg, error, generation, offspring, mating_pool, pair, vary_step,
                   parent_genes, comparisons, evaluations, cycles, hypervolume_value,
                   nondominated_individuals, call_vars>>

\* the evaluation of the initial population and
\* population = toolbox.select(population, len(population))
EvaluatePopulation ==
    /\ pc = "Evaluating"
    /\ \E r \in {select(evaluate(heap, population), population, Len(population))} :
           /\ heap' = [i \in Indices(r.chosen) |-> r.heap[r.chosen[i]]]
           /\ population' = Iota(Len(r.chosen))
    /\ evaluations' = evaluations + calls(heap, evaluate(heap, population))
    /\ pc' = "Evaluated"
    /\ UNCHANGED <<cfg, error, generation, mutate, offspring, mating_pool, pair,
                   vary_step, parent_genes, comparisons, cycles, hypervolume_value,
                   nondominated_individuals, call_vars>>

\* for generation in range(1, number_of_generations)
NextGeneration ==
    /\ pc \in {"Evaluated", "Reported"}
    /\ IF generation + 1 < cfg.number_of_generations
       THEN /\ generation' = generation + 1
            /\ pc' = "Selecting"
       ELSE /\ generation' = generation
            /\ pc' = "Returning"
    /\ UNCHANGED <<cfg, error, mutate, heap, population, offspring, mating_pool, pair,
                   vary_step, parent_genes, comparisons, evaluations, cycles,
                   hypervolume_value, nondominated_individuals, call_vars>>

\* offspring = offspring: the list keeps the selected individuals themselves
alias_offspring(h, pool) == [heap |-> h, offspring |-> pool]

\* offspring = [toolbox.clone(ind) for ind in offspring]: one new object per entry
\* of the list, also for an individual that stands in it more than once
clone_offspring(h, pool) ==
    [heap |-> h \o [i \in Indices(pool) |-> clone(h[pool[i]])],
     offspring |-> [i \in Indices(pool) |-> Len(h) + i]]

\* offspring = tools.selTournamentDCD(population, len(population));
\* offspring = [toolbox.clone(ind) for ind in offspring]
SelectParents ==
    /\ pc = "Selecting"
    /\ TournamentDefined(Len(population), Len(population))
    /\ \E perm1 \in random_sample(Len(population)),
          perm2 \in random_sample(Len(population)) :
         /\ comparisons' = tournament_count(Len(population), Len(population), perm1, perm2)
         /\ \E pool \in selTournamentDCD(heap, population, Len(population), perm1, perm2) :
              /\ heap' = clone_offspring(heap, pool).heap
              /\ offspring' = clone_offspring(heap, pool).offspring
              /\ mating_pool' = pool
              /\ parent_genes' = [i \in Indices(pool) |-> heap[pool[i]].genes]
    /\ pair' = 1
    /\ vary_step' = "mate"
    /\ pc' = IF Len(population) \div 2 >= 1 THEN "Varying" ELSE "EvaluatingOffspring"
    /\ UNCHANGED <<cfg, error, generation, mutate, population, evaluations, cycles,
                   hypervolume_value, nondominated_individuals, call_vars>>

\* selTournamentDCD indexes past the end of its shuffled copy (or, in later
\* releases, rejects k that is not a multiple of four): the exception ends optimize
SelectParentsFails ==
    /\ pc = "Selecting"
    /\ ~TournamentDefined(Len(population), Len(population))
    /\ pc' = "Failed"
    /\ error' = "selTournamentDCD"
    /\ UNCHANGED <<cfg, generation, mutate, heap, population, offspring, mating_pool,
                   pair, vary_step, parent_genes, comparisons, evaluations, cycles,
                   hypervolume_value, nondominated_individuals, call_vars>>

ind1 == offspring[2 * pair - 1]
ind2 == offspring[2 * pair]

\* if random.random() <= crossover_probability: toolbox.mate(ind1, ind2)
Mate ==
    /\ pc = "Varying"
    /\ vary_step = "mate"
    /\ \E u \in RandomDraws :
         IF u <= cfg.crossover_probability
         THEN \E c \in cxSimulatedBinaryBounded(heap[ind1].genes, heap[ind2].genes) :
                heap' = [heap EXCEPT ![ind1].genes = c[1], ![ind2].genes = c[2]]
         ELSE heap' = heap
    /\ vary_step' = "mutate1"
    /\ UNCHANGED <<cfg, pc, error, generation, mutate, population, offspring,
                   mating_pool, pair, parent_genes, comparisons, evaluations, cycles,
                   hypervolume_value, nondominated_individuals, call_vars>>

\* toolbox.mutate(ind1)
Mutate1 ==
    /\ pc = "Varying"
    /\ vary_step = "mutate1"
    /\ \E g \in mutPolynomialBounded(heap[ind1].genes, mutate.indpb) :
         heap' = [heap EXCEPT ![ind1].genes = g]
    /\ parent_genes' = [parent_genes EXCEPT ![2 * pair - 1] = <<>>, ![2 * pair] = <<>>]
    /\ mating_pool' = [mating_pool EXCEPT ![2 * pair - 1] = 0, ![2 * pair] = 0]
    /\ vary_step' = "mutate2"
    /\ UNCHANGED <<cfg, pc, error, generation, mutate, population, offspring, pair,
                   comparisons, evaluations, cycles, hypervolume_value,
                   nondominated_individuals, call_vars>>

\* toolbox.mutate(ind2), and the step of the pair loop
Mutate2 ==
    /\ pc = "Varying"
    /\ vary_step = "mutate2"
    /\ \E g \in mutPolynomialBounded(heap[ind2].genes, mutate.indpb) :
         heap' = [heap EXCEPT ![ind2].genes = g]
    /\ IF pair < Len(offspring) \div 2
       THEN /\ pair' = pair + 1
            /\ vary_step' = "mate"
            /\ pc' = pc
       ELSE /\ pair' = 0
            /\ vary_step' = ""
            /\ pc' = "EvaluatingOffspring"
    /\ UNCHANGED <<cfg, error, generation, mutate, population, offspring, mating_pool,
                   parent_genes, comparisons, evaluations, cycles, hypervolume_value,
                   nondominated_individuals, call_vars>>

\* the evaluation of the offspring
EvaluateOffspring ==
    /\ pc = "EvaluatingOffspring"
    /\ heap' = evaluate(heap, offspring)
    /\ evaluations' = evaluations + calls(heap, heap')
    /\ pc' = "RankingAndTruncating"
    /\ UNCHANGED <<cfg, error, generation, mutate, population, offspring, mating_pool,
                   pair, vary_step, parent_genes, comparisons, cycles,
                   hypervolume_value, nondominated_individuals, call_vars>>

\* population = toolbox.select(population + offspring, population_size); the
\* individuals left out are unreachable from then on and leave the heap
RankAndTruncate ==
    /\ pc = "RankingAndTruncating"
    /\ \E r \in {select(heap, population \o offspring, cfg.population_size)} :
           /\ heap' = [i \in Indices(r.chosen) |-> r.heap[r.chosen[i]]]
           /\ population' = Iota(Len(r.chosen))
    /\ offspring' = <<>>
    /\ mating_pool' = <<>>
    /\ parent_genes' = <<>>
    /\ comparisons' = <<>>
    /\ nondominated_individuals' = <<>>
    /\ pc' = "Reporting"
    /\ UNCHANGED <<cfg, error, generation, mutate, pair, vary_step, evaluations,
                   cycles, hypervolume_value, call_vars>>

\* nondominated_individuals = tools.sortNondominated(population, len(population))[0];
\* hypervolume_value = hypervolume(population, reference_point); the plots
Report ==
    /\ pc = "Reporting"
    /\ \E fronts \in {sortNondominated([i \in Indices(population) |->
                                            heap[population[i]].values],
                                         Len(population))} :
           nondominated_individuals' =
             [p \in Indices(fronts[1]) |-> population[fronts[1][p]]]
    /\ hypervolume_value' = <<hypervolume(heap, population)>>
    /\ cycles' = cycles + 1
    /\ pc' = "Reported"
    /\ UNCHANGED <<cfg, error, generation, mutate, heap, population, offspring,
                   mating_pool, pair, vary_step, parent_genes, comparisons, evaluations,
                   call_vars>>

\* return hypervolume_value
Return ==
    /\ pc = "Returning"
    /\ hypervolume_value # <<>>
    /\ pc' = "Done"
    /\ UNCHANGED <<cfg, error, generation, mutate, heap, population, offspring,
                   mating_pool, pair, vary_step, parent_genes, comparisons, evaluations,
                   cycles, hypervolume_value, nondominated_individuals, call_vars>>

\* return hypervolume_value, the name never assigned: UnboundLocalError
ReturnFails ==
    /\ pc = "Returning"
    /\ hypervolume_value = <<>>
    /\ pc' = "Failed"
    /\ error' = "UnboundLocalError"
    /\ UNCHANGED <<cfg, generation, mutate, heap, population, offspring, mating_pool,
                   pair, vary_step, parent_genes, comparisons, evaluations, cycles,
                   hypervolume_value, nondominated_individuals, call_vars>>

Next ==
    \/ InitializePopulation
    \/ EvaluatePopulation
    \/ NextGeneration
    \/ SelectParents
    \/ SelectParentsFails
    \/ Mate
    \/ Mutate1
    \/ Mutate2
    \/ EvaluateOffspring
    \/ RankAndTruncate
    \/ Report
    \/ Return
    \/ ReturnFails

Spec == Init /\ [][Next]_vars

-----------------------------------------------------------------------------
(* Properties *)

PopulationIndividuals == {population[i] : i \in Indices(population)}
OffspringIndividuals == {offspring[i] : i \in Indices(offspring)}

\* C1: after initialization and after every generation the population holds
\* exactly population_size individuals, all different objects
C1_PopulationSizeFixed ==
    pc # "Initializing" =>
        /\ Len(population) = cfg.population_size
        /\ Cardinality(PopulationIndividuals) = cfg.population_size
        /\ PopulationIndividuals \subseteq DOMAIN heap

C1_Witness ==
    /\ pc = "Reporting"
    /\ generation >= 1
    /\ Len(population) = cfg.population_size

\* the values of the list handed to the direct call
CallValues == [i \in Indices(individuals) |-> heap[individuals[i]].values]

\* the individuals of a set that none of the set dominates
Undominated(vals, among) ==
    {i \in among : \A j \in among : ~dominates(vals[j], vals[i])}

\* the ranks, by peeling: rank 0 are the individuals nothing dominates, rank r + 1
\* those nothing dominates once the ranks up to r are taken away
RECURSIVE Peel(_, _, _)
Peel(vals, remaining, ranked) ==
    IF remaining = {} THEN ranked
    ELSE Peel(vals, remaining \ Undominated(vals, remaining),
              Append(ranked, Undominated(vals, remaining)))

RankOf(layers, i) == (CHOOSE r \in Indices(layers) : i \in layers[r]) - 1

Kept == {chosen[i] : i \in Indices(chosen)}

LowerRanksKeptWhole(layers) ==
    /\ \A i \in Kept : \A j \in Indices(individuals) :
          RankOf(layers, j) < RankOf(layers, i) => j \in Kept
    /\ \A i \in Kept : \A j \in Indices(individuals) \ Kept :
          RankOf(layers, j) = RankOf(layers, i) =>
             ~FracLess(heap[i].crowding_dist, heap[j].crowding_dist)

\* C2: if an individual of rank r is kept, every individual of a lower rank is
\* kept, and within the truncated front no individual left out has a larger
\* crowding distance than one that is kept
C2_LowerRanksKeptWhole ==
    pc = "Selected" =>
        LowerRanksKeptWhole(Peel(CallValues, DOMAIN CallValues, <<>>))

BoundaryFrontCut(layers) ==
    /\ \E i \in Kept : RankOf(layers, i) >= 1
    /\ \E i \in Kept : \E j \in Indices(individuals) \ Kept :
          /\ RankOf(layers, j) = RankOf(layers, i)
          /\ FracLess(heap[j].crowding_dist, heap[i].crowding_dist)

C2_Witness ==
    /\ pc = "Selected"
    /\ BoundaryFrontCut(Peel(CallValues, DOMAIN CallValues, <<>>))

CountIn(s, x) == Cardinality({p \in Indices(s) : s[p] = x})

\* in how many places of the fronts an individual stands
Occurrences(i) == CountIn(Flatten(pareto_fronts), i)

FrontZero == {pareto_fronts[1][p] : p \in Indices(pareto_fronts[1])}

Nondominated == Undominated(CallValues, DOMAIN CallValues)

\* C3 as stated: the sort puts every individual of its input in exactly one
\* front, and front 0 is the set of individuals nothing dominates
C3_SortPartitionsInput ==
    pc \in {"Selected", "Sorted"} =>
        /\ \A i \in Indices(individuals) : Occurrences(i) = 1
        /\ FrontZero = Nondominated

LeftOutRankHigher(layers) ==
    \A i \in {i \in Indices(individuals) : Occurrences(i) = 0} :
        \A j \in {j \in Indices(individuals) : Occurrences(j) = 1} :
            RankOf(layers, i) > RankOf(layers, j)

\* C3, amended: every individual stands in at most one front, in exactly one when
\* k is the length of the input; with a smaller k the fronts hold at least k
\* individuals and every individual left out has a higher rank than all of
\* those; front 0 is the set of individuals nothing dominates
C3_SortPartitionsUpToK ==
    pc \in {"Selected", "Sorted"} =>
        /\ \A i \in Indices(individuals) : Occurrences(i) <= 1
        /\ k = Len(individuals) => \A i \in Indices(individuals) : Occurrences(i) = 1
        /\ Len(Flatten(pareto_fronts)) >= k
        /\ LeftOutRankHigher(Peel(CallValues, DOMAIN CallValues, <<>>))
        /\ FrontZero = Nondominated

C3_Witness ==
    /\ pc = "Selected"
    /\ k < Len(individuals)
    /\ \E i \in Indices(individuals) : Occurrences(i) = 0
    /\ \E i, j \in Indices(individuals) :
          i # j /\ Occurrences(i) = 1 /\ CallValues[i] = CallValues[j]
    /\ Len(pareto_fronts) >= 2

\* C4: with crossover_probability = 0 the genes of both offspring of a pair equal,
\* just before their mutation, the genes of the parents they were cloned from
C4_NoCrossoverAtZero ==
    (cfg.crossover_probability = 0 /\ pc = "Varying" /\ vary_step = "mutate1") =>
        /\ heap[ind1].genes = parent_genes[2 * pair - 1]
        /\ heap[ind2].genes = parent_genes[2 * pair]

\* C5: every gene of every individual lies within its bounds
C5_GenesWithinBounds ==
    \A ref \in DOMAIN heap : \A i \in DOMAIN heap[ref].genes :
        /\ heap[ref].genes[i] >= attribute_bound_lower
        /\ heap[ref].genes[i] <= attribute_bound_upper

C5_Witness ==
    /\ pc = "Varying"
    /\ vary_step = "mutate1"
    /\ heap[ind1].genes # parent_genes[2 * pair - 1]
    /\ \E i \in DOMAIN heap[ind1].genes : heap[ind1].genes[i] = attribute_bound_upper

\* C6: a run with number_of_generations >= 1 ends in Done, after exactly
\* number_of_generations - 1 cycles, with the hypervolume value to return (stated
\* for the population sizes tournament selection accepts, see C9)
C6_RunReturnsHypervolume ==
    (cfg.number_of_generations >= 1 /\ cfg.population_size % 4 = 0
     /\ pc \in {"Done", "Failed"}) =>
        /\ pc = "Done"
        /\ cycles = cfg.number_of_generations - 1
        /\ hypervolume_value # <<>>

\* C7: with an invalid configuration no individual is ever created, evaluated,
\* selected or varied
C7_InvalidConfigurationRejected ==
    ~ValidConfiguration(cfg) =>
        /\ heap = <<>>
        /\ evaluations = 0
        /\ offspring = <<>>

\* C8: no individual is evaluated twice; every individual of the population has
\* been evaluated once and carries the fitness of its genes; when the merged sort
\* is about to start so does every offspring; and a run that leaves the loop has
\* made N + (G-1)*N evaluations
C8_EvaluatedOncePerCreation ==
    /\ \A ref \in DOMAIN heap : heap[ref].evaluated <= 1
    /\ pc \notin {"Initializing", "Evaluating"} =>
          \A ref \in PopulationIndividuals :
             /\ heap[ref].evaluated = 1
             /\ heap[ref].values = welded_beam_design(heap[ref].genes)
    /\ pc = "RankingAndTruncating" =>
          \A ref \in OffspringIndividuals :
             /\ heap[ref].evaluated = 1
             /\ heap[ref].values = welded_beam_design(heap[ref].genes)
    /\ pc \in {"Returning", "Done"} =>
          evaluations = cfg.population_size
                        + (cfg.number_of_generations - 1) * cfg.population_size

C8_Witness ==
    /\ pc = "Done"
    /\ cfg.number_of_generations >= 2
    /\ evaluations = cfg.number_of_generations * cfg.population_size

SelectionRan == pc \in {"Varying", "EvaluatingOffspring", "RankingAndTruncating"}

PoolComplete ==
    /\ Len(offspring) = cfg.population_size
    /\ DOMAIN comparisons = 1..cfg.population_size
    /\ \A x \in 1..cfg.population_size : comparisons[x] = 2

C10_MutationGatedByArgument ==
    [][(pc = "Varying" /\ vary_step \in {"mutate1", "mutate2"}
        /\ cfg.mutation_probability = 0) =>
          \A ref \in DOMAIN heap : heap'[ref].genes = heap[ref].genes]_vars

\* the offspring whose pair the loop has not varied yet
Unvaried == {i \in Indices(offspring) : mating_pool[i] # 0}

\* every offspring is an object of its own: no two entries of offspring, and no
\* entry of offspring and entry of population, are the same object
IndependentCopies ==
    /\ \A i, j \in Indices(offspring) : i # j => offspring[i] # offspring[j]
    /\ OffspringIndividuals \cap PopulationIndividuals = {}
    /\ OffspringIndividuals \subseteq DOMAIN heap

\* until its pair is varied an offspring carries the genes and the fitness of the
\* parent selected for its place
CopiesOfParents ==
    \A i \in Unvaried :
        /\ mating_pool[i] \in PopulationIndividuals
        /\ vary_step = "mate" =>
              /\ heap[offspring[i]].genes = heap[mating_pool[i]].genes
              /\ heap[offspring[i]].values = heap[mating_pool[i]].values

\* a step of the cloning or of the pair loop leaves the population, and the genes
\* and fitness of each of its individuals, as they were
ParentsUntouched ==
    pc \in {"Selecting", "Varying"} =>
        /\ population' = population
        /\ \A ref \in PopulationIndividuals :
              /\ heap'[ref].genes = heap[ref].genes
              /\ heap'[ref].values = heap[ref].values

\* C11: every entry of the mating pool is cloned into an object of its own, also
\* when a parent is selected more than once, so no two offspring and no offspring
\* and parent share a gene vector, and variation changes neither the genes nor
\* the fitness of any individual of the population
C11_VariationLeavesParents ==
    /\ []((pc = "Varying") => (IndependentCopies /\ CopiesOfParents))
    /\ [][ParentsUntouched]_vars

\* a parent selected for the places 1 and 3: crossover changed the copy at place
\* 1, the copy at place 3 and the parent still carry the parent's genes
C11_Witness ==
    /\ pc = "Varying"
    /\ pair = 1
    /\ vary_step = "mutate1"
    /\ Len(offspring) >= 3
    /\ mating_pool[1] = mating_pool[3]
    /\ heap[offspring[1]].genes # heap[mating_pool[1]].genes
    /\ heap[offspring[3]].genes = heap[mating_pool[1]].genes
    /\ heap[mating_pool[1]].genes = parent_genes[1]

====
